---- MODULE Spec2Model ----
(***************************************************************************)
(* The registration page of theprogrammersacademy: the HTTP client         *)
(* (src/lib/api.ts: request, api.get/post/put/patch/delete), the           *)
(* registration service (createRegistration) and the registration modal    *)
(* of the dashboard page (RegistrationModal, Dashboard).                   *)
(*                                                                         *)
(* JavaScript values are tagged tuples: <<"undefined">>, <<"null">>,       *)
(* <<"string", s>>, <<"number", n>>, <<"object", r>> with r a record, and   *)
(* <<"jsontext", v>>, the string whose characters are the JSON             *)
(* serialization of v; <<"signal", n>> is the AbortSignal of controller n.  *)
(* A thrown value is a record of the four properties the code reads or     *)
(* writes: name, message, status, details.  The text typed into a form     *)
(* field is a sequence of characters.                                      *)
(***************************************************************************)
EXTENDS Integers, Sequences, FiniteSets, TLC

VARIABLES
    calls,             \* call id -> the state of one invocation of request()
    fetched,           \* the fetch() calls made so far, one entry per call of fetch
    nextId,            \* the id of the next invocation of request()
    modalOpen,         \* Dashboard: modalOpen
    selectedCourseId,  \* Dashboard: selectedCourseId (the modal's defaultCourseId)
    form,              \* RegistrationModal: form
    submitting,        \* RegistrationModal: submitting
    lastSubmit,        \* what the last submit event did: "none", "started", "ignored"
    callerAborted,     \* the controller whose signal a caller passes in options was aborted
    reopen             \* since the pending submission started, the modal was never
                       \* closed ("no"), is closed ("closed"), was closed and is open
                       \* again ("reopened"); "completed" from the settlement of a
                       \* submission whose modal had been closed and opened again
                       \* until the next event of the page

vars ==
    <<calls, fetched, nextId, modalOpen, selectedCourseId, form, submitting, lastSubmit,
      reopen, callerAborted>>

(***************************************************************************)
(* Bounds of the model.                                                    *)
(***************************************************************************)
MaxApiCalls == 2       \* invocations of api.* by a caller that awaits each one
MaxRegCalls == 2       \* direct, possibly concurrent, calls of createRegistration
MaxSubmits == 2
MaxFieldSubmits == 2
MaxCancelCalls == 2
MaxReopenSubmits == 2        \* submissions started from the form

(***************************************************************************)
(* JavaScript values.                                                      *)
(***************************************************************************)
Undefined == <<"undefined">>
Null == <<"null">>
Str(s) == <<"string", s>>
Num(n) == <<"number", n>>
Obj(r) == <<"object", r>>
JsonText(v) == <<"jsontext", v>>

NoProps == [k \in {} |-> k]

\* { ...a, ...b }: the keys of both, b's value where both have the key.
Merge(a, b) == [k \in DOMAIN a \cup DOMAIN b |-> IF k \in DOMAIN b THEN b[k] ELSE a[k]]

\* JSON.stringify(v): undefined for undefined, else the JSON text of v.
JSONstringify(v) == IF v = Undefined THEN Undefined ELSE JsonText(v)

\* Whether JSON.parse accepts the string s.
IsJson(s) == s[1] = "jsontext"

\* JSON.parse(s) for a string it accepts.
JSONparse(s) == s[2]

\* Boolean(v) for the values of the model.
Truthy(v) == v \notin {Undefined, Null, Str("")}

\* A thrown or rejected value, by the properties the code touches.
Err(name, message, status, details) ==
    [name |-> name, message |-> message, status |-> status, details |-> details]

NoError == Err(Undefined, Undefined, Undefined, Undefined)

\* What fetch, response.json() and response.text() reject with on abort.
AbortError == Err(Str("AbortError"), Str("The user aborted a request."), Undefined, Undefined)

\* What response.json() rejects with when the body is not JSON.
SyntaxError == Err(Str("SyntaxError"), Str("Unexpected token in JSON"), Undefined, Undefined)

\* What fetch rejects with when the network fails.
TransportErrors ==
    { Err(Str("TypeError"), Str("Failed to fetch"), Undefined, Undefined),
      Err(Str("TypeError"), Str("Load failed"), Undefined, Undefined) }

\* A promise: pending, fulfilled with a value, or rejected with an error.
Pending == [state |-> "pending", value |-> Undefined, error |-> NoError]
Fulfilled(v) == [state |-> "fulfilled", value |-> v, error |-> NoError]
Rejected(e) == [state |-> "rejected", value |-> Undefined, error |-> e]

(***************************************************************************)
(* src/lib/api.ts                                                          *)
(***************************************************************************)
BASE_URL == "https://api.example.test"

\* Mutant of TimeoutOf: options.timeout || 10000, which replaces a timeout of 0.
TimeoutOrDefault(options) ==
    IF "timeout" \in DOMAIN options /\ options.timeout \notin {Undefined, Null, Num(0)}
    THEN options.timeout[2]
    ELSE 10000

\* options.timeout ?? 10000
TimeoutOf(options) ==
    IF "timeout" \in DOMAIN options /\ options.timeout \notin {Undefined, Null}
    THEN options.timeout[2]
    ELSE 10000

\* options.headers || {}
HeadersOf(options) ==
    IF "headers" \in DOMAIN options /\ Truthy(options.headers)
    THEN options.headers[2]
    ELSE NoProps

\* The second argument of fetch: options, then the controller's signal and the
\* merged headers.
\* Variant: the options are spread after the signal, so a caller's signal wins.
FetchInitKeepingSignal(id, options) ==
    Merge(Merge([signal |-> <<"signal", id>>], options),
          [headers |-> Obj(Merge([k \in {"Content-Type"} |-> "application/json"],
                                 HeadersOf(options)))])

FetchInit(id, options) ==
    Merge(options,
          [signal |-> <<"signal", id>>,
           headers |-> Obj(Merge([k \in {"Content-Type"} |-> "application/json"],
                                 HeadersOf(options)))])

\* Mutant of Fetch: a request equal to one already sent is not sent again.
FetchDeduplicated(log, id, url, init) ==
    IF \E i \in 1..Len(log) : log[i].url = url /\ log[i].init.body = init.body
    THEN log
    ELSE Append(log, [call |-> id, url |-> url, init |-> init])

\* fetch(url, init): one network request leaves.
Fetch(log, id, url, init) == Append(log, [call |-> id, url |-> url, init |-> init])

\* Mutant of IncludesJson: contentType === "application/json".
EqualsJson(contentType) == contentType = Str("application/json")

\* contentType?.includes("application/json"), for the content types of the model.
IncludesJson(contentType) ==
    contentType \in { Str("application/json"), Str("application/json; charset=utf-8") }

\* response.ok
ResponseOk(status) == status >= 200 /\ status <= 299

\* data?.message
MessageOf(data) ==
    IF data[1] = "object" /\ "message" \in DOMAIN data[2] THEN Str(data[2].message) ELSE Undefined

\* Mutant of HttpError: the decoded body is left out of the error.
HttpErrorWithoutDetails(data, status) ==
    Err(Undefined,
        IF Truthy(MessageOf(data)) THEN MessageOf(data) ELSE Str("Something went wrong"),
        Num(status),
        Undefined)

\* The ApiError of a response that is not ok.
HttpError(data, status) ==
    Err(Undefined,
        IF Truthy(MessageOf(data)) THEN MessageOf(data) ELSE Str("Something went wrong"),
        Num(status),
        data)

\* The ApiError of an abort.
TimeoutError ==
    Err(Undefined, Str("Request timeout. Please try again."), Undefined, Undefined)

\* Variant: no catch block; the AbortError leaves request as it is.
CatchNothing(error) == error

\* Mutant of Catch: every other error is wrapped into an ApiError too.
CatchWrapping(error) ==
    IF error.name = Str("AbortError")
    THEN TimeoutError
    ELSE Err(Undefined, error.message, error.status, error.details)

\* The catch block: an AbortError becomes the timeout ApiError, anything else
\* is thrown again as it is.
Catch(error) == IF error.name = Str("AbortError") THEN TimeoutError ELSE error

\* Mutant of ClearTimeout: no finally block.
LeaveTimer(timer) == timer

\* The finally block: clearTimeout(timeoutId).
ClearTimeout(timer) == IF timer = "pending" THEN "cleared" ELSE timer

\* What response.json() or response.text() rejects with for a body that has
\* arrived whole: a SyntaxError when JSON is expected and the text is not JSON.
DecodeFailure(contentType, text) ==
    IF IncludesJson(contentType) /\ ~IsJson(text) THEN SyntaxError ELSE NoError

\* The body of the try block once the body text has arrived: decode by the
\* content type, throw the ApiError when the response is not ok, return data.
TryAfterBody(contentType, status, text) ==
    IF DecodeFailure(contentType, text) # NoError
    THEN Rejected(Catch(DecodeFailure(contentType, text)))
    ELSE LET data == IF IncludesJson(contentType) THEN JSONparse(text) ELSE text
         IN  IF ~ResponseOk(status)
             THEN Rejected(Catch(HttpError(data, status)))
             ELSE Fulfilled(data)

\* api.get, api.delete: the arguments they pass to request.
ApiGet(path, options) ==
    [path |-> path, options |-> Merge([method |-> Str("GET")], options)]

ApiDelete(path, options) ==
    [path |-> path, options |-> Merge([method |-> Str("DELETE")], options)]

\* api.post, api.put, api.patch: the arguments they pass to request.
ApiPost(path, body, options) ==
    [path |-> path,
     options |-> Merge([method |-> Str("POST"), body |-> JSONstringify(body)], options)]

ApiPut(path, body, options) ==
    [path |-> path,
     options |-> Merge([method |-> Str("PUT"), body |-> JSONstringify(body)], options)]

ApiPatch(path, body, options) ==
    [path |-> path,
     options |-> Merge([method |-> Str("PATCH"), body |-> JSONstringify(body)], options)]

\* Mutant of CreateRegistration: another resource path.
CreateRegistrationElsewhere(payload) == ApiPost("/registration", payload, NoProps)

\* createRegistration(payload): api.post("/registrations", payload).
CreateRegistration(payload) == ApiPost("/registrations", payload, NoProps)

\* Mutant of CreateRegistrationResult: a rejection is caught and null returned.
CreateRegistrationRecovering(promise) ==
    IF promise.state = "rejected" THEN Fulfilled(Null) ELSE promise

\* What createRegistration's caller gets: the promise of api.post, that is of
\* request, itself.
CreateRegistrationResult(promise) == promise

\* The arguments of request for a call of an exported function.
RequestArgs(api, path, body, options) ==
    CASE api = "get" -> ApiGet(path, options)
      [] api = "delete" -> ApiDelete(path, options)
      [] api = "post" -> ApiPost(path, body, options)
      [] api = "put" -> ApiPut(path, body, options)
      [] api = "patch" -> ApiPatch(path, body, options)
      [] api = "createRegistration" -> CreateRegistration(body)

\* request() up to its first await: the controller, the timer, the fetch.
NewCall(origin, api, path, body, options) ==
    [origin |-> origin, api |-> api, path |-> path, body |-> body, options |-> options,
     delay |-> TimeoutOf(RequestArgs(api, path, body, options).options),
     elapsed |-> 0, timer |-> "pending", aborted |-> FALSE,
     pc |-> "fetch", status |-> 0, contentType |-> Null, text |-> Undefined,
     cause |-> NoError,
     outcome |-> Pending, result |-> Pending]

\* request() leaving through return or throw: the promise settles and the
\* finally block clears the timer.
Settle(c, cause, outcome) ==
    [c EXCEPT !.pc = "settled", !.timer = ClearTimeout(c.timer), !.cause = cause,
              !.outcome = outcome,
              !.result = IF c.api = "createRegistration"
                         THEN CreateRegistrationResult(outcome)
                         ELSE outcome]

InFlight == {id \in DOMAIN calls : calls[id].pc # "settled"}

Settled == {id \in DOMAIN calls : calls[id].pc = "settled"}

ui == <<modalOpen, selectedCourseId, form, submitting, lastSubmit, reopen, callerAborted>>

(***************************************************************************)
(* The page: Dashboard and RegistrationModal.                              *)
(***************************************************************************)
CourseIds == {"flutter", "python", "c-programming"}

FirstCourseId == "flutter"

\* session id -> its courseId
SessionCourse ==
    [s \in {"free-flutter", "free-python", "free-c"} |->
        CASE s = "free-flutter" -> "flutter"
          [] s = "free-python" -> "python"
          [] s = "free-c" -> "c-programming"]

\* The white space String.prototype.trim removes, as far as a text input can hold it.
IsSpace(ch) == ch \in {" ", "\t"}

RECURSIVE TrimStart(_)
TrimStart(s) == IF s # <<>> /\ IsSpace(Head(s)) THEN TrimStart(Tail(s)) ELSE s

RECURSIVE TrimEnd(_)
TrimEnd(s) ==
    IF s # <<>> /\ IsSpace(s[Len(s)]) THEN TrimEnd(SubSeq(s, 1, Len(s) - 1)) ELSE s

\* Variant: trimStart instead of trim.
TrimOnlyStart(s) == TrimStart(s)

\* String.prototype.trim
Trim(s) == TrimEnd(TrimStart(s))

\* registrationData of handleSubmit.
RegistrationData(f, timestamp) ==
    [name |-> Trim(f.name), email |-> Trim(f.email), phone |-> Trim(f.phone),
     education |-> Trim(f.education), address |-> Trim(f.address),
     courseId |-> f.courseId, registrationDate |-> timestamp]

\* Mutant of SubmitGuard: no guard.
NoSubmitGuard(isSubmitting) == FALSE

\* handleSubmit's guard: if (submitting) return.
SubmitGuard(isSubmitting) == isSubmitting

\* Variant: the effect sets a fresh form with the default course.
CourseEffectResettingForm(f, open, defaultCourseId, depsChanged) ==
    IF depsChanged /\ open
    THEN [name |-> <<>>, email |-> <<>>, phone |-> <<>>, education |-> <<>>,
          address |-> <<>>, courseId |-> defaultCourseId]
    ELSE f

\* Variant: the effect with an empty dependency list, which runs on mount only.
CourseEffectOnMount(f, open, defaultCourseId, depsChanged) == f

\* The effect on [open, defaultCourseId]: when one of them changed and the modal
\* is open, the form's courseId becomes the default.
CourseEffect(f, open, defaultCourseId, depsChanged) ==
    IF depsChanged /\ open THEN [f EXCEPT !.courseId = defaultCourseId] ELSE f

\* The history in reopen after an event of the page.
AfterEvent(r) == IF r = "completed" THEN "no" ELSE r

Init ==
    /\ calls = NoProps
    /\ fetched = <<>>
    /\ nextId = 1
    /\ modalOpen = FALSE
    /\ selectedCourseId = FirstCourseId
    /\ form = [name |-> <<>>, email |-> <<>>, phone |-> <<>>, education |-> <<>>,
               address |-> <<>>, courseId |-> FirstCourseId]
    /\ submitting = FALSE
    /\ lastSubmit = "none"
    /\ reopen = "no"
    /\ callerAborted = FALSE

\* A call of an exported function of api.ts or of createRegistration.
Invoke(origin, api, path, body, options) ==
    LET req == RequestArgs(api, path, body, options)
    IN  /\ calls' = calls @@ (nextId :> NewCall(origin, api, path, body, options))
        /\ fetched' = Fetch(fetched, nextId, BASE_URL \o req.path,
                            FetchInit(nextId, req.options))
        /\ nextId' = nextId + 1

\* A caller other than the page calls an exported function.
ApiCall(api, path, body, options) ==
    /\ Invoke("direct", api, path, body, options)
    /\ UNCHANGED ui

\* Variant: onClose() in the finally block, so that a failure closes the form too.
SubmitContinuationClosingAlways(result) ==
    /\ modalOpen' = FALSE
    /\ submitting' = FALSE
    /\ reopen' = "no"
    /\ UNCHANGED <<selectedCourseId, form, lastSubmit, callerAborted>>

\* Variant: the form is emptied in the finally block.
SubmitContinuationResettingForm(result) ==
    /\ modalOpen' = IF result.state = "fulfilled" THEN FALSE ELSE modalOpen
    /\ submitting' = FALSE
    /\ reopen' = "no"
    /\ form' = [name |-> <<>>, email |-> <<>>, phone |-> <<>>, education |-> <<>>,
                address |-> <<>>, courseId |-> form.courseId]
    /\ UNCHANGED <<selectedCourseId, lastSubmit, callerAborted>>

\* Variant: setSubmitting(false) at the end of the try block instead of finally.
SubmitContinuationWithoutFinally(result) ==
    /\ modalOpen' = IF result.state = "fulfilled" THEN FALSE ELSE modalOpen
    /\ submitting' = IF result.state = "fulfilled" THEN FALSE ELSE submitting
    /\ reopen' = IF result.state = "fulfilled" THEN "no" ELSE reopen
    /\ UNCHANGED <<selectedCourseId, form, lastSubmit, callerAborted>>

\* Variant: onClose() only if the modal still shows the opening that submitted.
SubmitContinuationClosingOwnOpening(result) ==
    /\ modalOpen' = IF result.state = "fulfilled" /\ reopen # "reopened" THEN FALSE ELSE modalOpen
    /\ submitting' = FALSE
    /\ reopen' = IF reopen = "reopened" THEN "completed" ELSE "no"
    /\ UNCHANGED <<selectedCourseId, form, lastSubmit, callerAborted>>

\* handleSubmit after its await: close on success, alert on failure, and
\* setSubmitting(false) in either case.
SubmitContinuation(result) ==
    /\ modalOpen' = IF result.state = "fulfilled" THEN FALSE ELSE modalOpen
    /\ submitting' = FALSE
    /\ reopen' = IF reopen = "reopened" THEN "completed" ELSE "no"
    /\ UNCHANGED <<selectedCourseId, form, lastSubmit, callerAborted>>

\* The promise of call id settles; the continuation of its awaiter runs.
SettleCall(id, cause, text, outcome) ==
    LET c == Settle([calls[id] EXCEPT !.text = text], cause, outcome)
    IN  /\ calls' = [calls EXCEPT ![id] = c]
        /\ IF c.origin = "form" THEN SubmitContinuation(c.result) ELSE UNCHANGED ui
        /\ UNCHANGED <<fetched, nextId>>

\* The response's status line and headers arrive: fetch resolves, request reads
\* the content type and starts to read the body.
Responds(id, status, contentType) ==
    /\ id \in DOMAIN calls
    /\ calls[id].pc = "fetch"
    /\ calls' = [calls EXCEPT ![id].pc = "body", ![id].status = status,
                              ![id].contentType = contentType]
    /\ UNCHANGED <<fetched, nextId, ui>>

\* fetch rejects: no response.
FetchFails(id, error) ==
    /\ id \in DOMAIN calls
    /\ calls[id].pc = "fetch"
    /\ SettleCall(id, error, Undefined, Rejected(Catch(error)))

\* The body has arrived whole.
BodyArrives(id, text) ==
    /\ id \in DOMAIN calls
    /\ calls[id].pc = "body"
    /\ SettleCall(id, DecodeFailure(calls[id].contentType, text), text,
                  TryAfterBody(calls[id].contentType, calls[id].status, text))

\* The connection breaks while the body is read.
BodyFails(id, error) ==
    /\ id \in DOMAIN calls
    /\ calls[id].pc = "body"
    /\ SettleCall(id, error, Undefined, Rejected(Catch(error)))

\* Variant: one controller at module level shared by all requests, so the
\* timer of one request aborts every request in flight.
TimerFiresShared(id) ==
    /\ id \in DOMAIN calls
    /\ calls[id].timer = "pending"
    /\ calls[id].elapsed >= calls[id].delay
    /\ calls' = [j \in DOMAIN calls |->
                    IF calls[j].pc = "settled"
                    THEN calls[j]
                    ELSE Settle([calls[j] EXCEPT !.timer = IF j = id THEN "fired" ELSE @,
                                                 !.aborted = TRUE],
                                AbortError, Rejected(Catch(AbortError)))]
    /\ IF \E j \in InFlight : calls[j].origin = "form"
       THEN SubmitContinuation(Rejected(Catch(AbortError)))
       ELSE UNCHANGED ui
    /\ UNCHANGED <<fetched, nextId>>

\* The timer's callback: controller.abort(); what request awaits rejects with
\* an AbortError.
TimerFires(id) ==
    /\ id \in DOMAIN calls
    /\ calls[id].timer = "pending"
    /\ calls[id].elapsed >= calls[id].delay
    /\ LET c == [calls[id] EXCEPT !.timer = "fired", !.aborted = TRUE]
       IN  IF c.pc = "settled"
           THEN /\ calls' = [calls EXCEPT ![id] = c]
                /\ UNCHANGED <<fetched, nextId, ui>>
           ELSE LET d == Settle(c, AbortError, Rejected(Catch(AbortError)))
                IN  /\ calls' = [calls EXCEPT ![id] = d]
                    /\ IF d.origin = "form"
                       THEN SubmitContinuation(d.result)
                       ELSE UNCHANGED ui
                    /\ UNCHANGED <<fetched, nextId>>

\* The signal of a controller the caller made itself.
CallerSignal == <<"signal", 0>>

\* The signal the fetch of call id was given.
FetchSignal(id) ==
    LET i == CHOOSE i \in 1..Len(fetched) : fetched[i].call = id
    IN  fetched[i].init.signal

\* The caller aborts its own controller: a fetch that was given that
\* controller's signal rejects with an AbortError.
CallerAborts ==
    /\ ~callerAborted
    /\ callerAborted' = TRUE
    /\ calls' = [id \in DOMAIN calls |->
                    IF /\ calls[id].pc # "settled"
                       /\ \E i \in 1..Len(fetched) : fetched[i].call = id
                       /\ FetchSignal(id) = CallerSignal
                    THEN Settle(calls[id], AbortError, Rejected(Catch(AbortError)))
                    ELSE calls[id]]
    /\ UNCHANGED <<fetched, nextId, modalOpen, selectedCourseId, form, submitting, lastSubmit,
                   reopen>>

\* d milliseconds pass.  A timer's callback runs as soon as its delay has
\* passed, so time does not move past the delay of a pending timer.
Tick(d) ==
    /\ d > 0
    /\ \E id \in DOMAIN calls : calls[id].timer = "pending"
    /\ \A id \in DOMAIN calls :
          calls[id].timer = "pending" => calls[id].elapsed + d <= calls[id].delay
    /\ calls' = [id \in DOMAIN calls |->
                    IF calls[id].pc # "settled"
                    THEN [calls[id] EXCEPT !.elapsed = @ + d]
                    ELSE calls[id]]
    /\ UNCHANGED <<fetched, nextId, ui>>

\* Nothing refers to a settled call any more.
Forget(id) ==
    /\ id \in Settled
    /\ calls[id].timer # "pending"
    /\ calls' = [i \in DOMAIN calls \ {id} |-> calls[i]]
    /\ fetched' = SelectSeq(fetched, LAMBDA e : e.call # id)
    /\ UNCHANGED <<nextId, ui>>

\* Variant: the page renders the modal only while modalOpen, so that opening
\* mounts a new instance with fresh state.
OpenCourseFormRemounting(course) ==
    /\ selectedCourseId' = course
    /\ modalOpen' = TRUE
    /\ form' = IF modalOpen
               THEN CourseEffect(form, TRUE, course, selectedCourseId # course)
               ELSE [name |-> <<>>, email |-> <<>>, phone |-> <<>>, education |-> <<>>,
                     address |-> <<>>, courseId |-> course]
    /\ submitting' = (modalOpen /\ submitting)
    /\ reopen' = IF reopen = "closed" THEN "reopened" ELSE AfterEvent(reopen)
    /\ UNCHANGED <<calls, fetched, nextId, lastSubmit, callerAborted>>

\* openCourseForm(course), and the modal's effect.
OpenCourseForm(course) ==
    /\ selectedCourseId' = course
    /\ modalOpen' = TRUE
    /\ form' = CourseEffect(form, TRUE, course, ~modalOpen \/ selectedCourseId # course)
    /\ reopen' = IF reopen = "closed" THEN "reopened" ELSE AfterEvent(reopen)
    /\ UNCHANGED <<calls, fetched, nextId, submitting, lastSubmit, callerAborted>>

\* Variant: as OpenCourseFormRemounting, for a session.
OpenSessionFormRemounting(s) ==
    /\ selectedCourseId' = SessionCourse[s]
    /\ modalOpen' = TRUE
    /\ form' = IF modalOpen
               THEN CourseEffect(form, TRUE, SessionCourse[s],
                                 selectedCourseId # SessionCourse[s])
               ELSE [name |-> <<>>, email |-> <<>>, phone |-> <<>>, education |-> <<>>,
                     address |-> <<>>, courseId |-> SessionCourse[s]]
    /\ submitting' = (modalOpen /\ submitting)
    /\ reopen' = IF reopen = "closed" THEN "reopened" ELSE AfterEvent(reopen)
    /\ UNCHANGED <<calls, fetched, nextId, lastSubmit, callerAborted>>

\* openSessionForm(s), and the modal's effect.
OpenSessionForm(s) ==
    /\ selectedCourseId' = SessionCourse[s]
    /\ modalOpen' = TRUE
    /\ form' = CourseEffect(form, TRUE, SessionCourse[s],
                            ~modalOpen \/ selectedCourseId # SessionCourse[s])
    /\ reopen' = IF reopen = "closed" THEN "reopened" ELSE AfterEvent(reopen)
    /\ UNCHANGED <<calls, fetched, nextId, submitting, lastSubmit, callerAborted>>

\* onClose from the backdrop, the X button or Cancel.
CloseModal ==
    /\ modalOpen
    /\ modalOpen' = FALSE
    /\ reopen' = IF submitting THEN "closed" ELSE AfterEvent(reopen)
    /\ UNCHANGED <<calls, fetched, nextId, selectedCourseId, form, submitting, lastSubmit,
                   callerAborted>>

\* onChange(key) of an input or of the course select.
OnChange(key, value) ==
    /\ modalOpen
    /\ form' = [form EXCEPT ![key] = value]
    /\ reopen' = AfterEvent(reopen)
    /\ UNCHANGED <<calls, fetched, nextId, modalOpen, selectedCourseId, submitting, lastSubmit,
                   callerAborted>>

\* A submit event of the form: handleSubmit up to its await.  React renders
\* the state set in an event handler before the next event is handled, so
\* the handler reads the current form and submitting.
HandleSubmit(timestamp) ==
    /\ modalOpen
    /\ IF SubmitGuard(submitting)
       THEN /\ lastSubmit' = "ignored"
            /\ UNCHANGED <<calls, fetched, nextId, modalOpen, selectedCourseId, form,
                           submitting, reopen, callerAborted>>
       ELSE /\ submitting' = TRUE
            /\ lastSubmit' = "started"
            /\ Invoke("form", "createRegistration", "/registrations",
                      Obj(RegistrationData(form, timestamp)), NoProps)
            /\ reopen' = "no"
            /\ UNCHANGED <<modalOpen, selectedCourseId, form, callerAborted>>

(***************************************************************************)
(* The environment: what callers pass and what the network answers.        *)
(***************************************************************************)
SamplePayload ==
    [name |-> <<"a">>, email |-> <<"a">>, phone |-> <<"a">>, education |-> <<"a">>,
     address |-> <<"a">>, courseId |-> "python",
     registrationDate |-> "2026-02-15T10:00:00.000Z"]

OtherPayload == [SamplePayload EXCEPT !.courseId = "flutter"]

Timestamps == {"2026-02-15T10:00:00.000Z"}

ApiPaths == {"/registrations", "/courses"}

ApiBodies == {Undefined, Obj(SamplePayload)}

\* The options a caller passes; NoProps also stands for no options argument.
ApiOptions ==
    { NoProps,
      [timeout |-> Num(0)],
      [timeout |-> Num(5000)],
      [method |-> Str("DELETE")],
      [signal |-> CallerSignal],
      [headers |-> Obj([Accept |-> "text/plain"])] }

Statuses == {201, 400, 500}

ContentTypes == {Null, Str("application/json; charset=utf-8"), Str("text/plain")}

\* The record the server saved for the payload of call c, if c sent one.
EchoBodies(c) ==
    IF c.body[1] = "object"
    THEN {JsonText(Obj(Merge(c.body[2], [id |-> 42])))}
    ELSE {}

BodyTexts ==
    { Str("Server Error"),
      JsonText(Obj([message |-> "Email already registered"])),
      JsonText(Obj([message |-> ""])),
      JsonText(Null) }

\* The network and the timers of the calls in flight.
Network(statuses, contentTypes, texts, errors, steps) ==
    \/ \E id \in DOMAIN calls, st \in statuses, ct \in contentTypes : Responds(id, st, ct)
    \/ \E id \in DOMAIN calls, e \in errors : FetchFails(id, e)
    \/ \E id \in DOMAIN calls :
          \E text \in texts \cup EchoBodies(calls[id]) : BodyArrives(id, text)
    \/ \E id \in DOMAIN calls, e \in errors : BodyFails(id, e)
    \/ \E id \in DOMAIN calls : TimerFires(id)
    \/ \E d \in steps : Tick(d)
    \/ \E id \in DOMAIN calls : Forget(id)

(***************************************************************************)
(* SpecApi: a caller that calls the exported functions of api.ts one after *)
(* the other, awaiting each.                                               *)
(***************************************************************************)
CallWithoutBody ==
    /\ calls = NoProps
    /\ nextId <= MaxApiCalls
    /\ \E api \in {"get", "delete"}, path \in ApiPaths, options \in ApiOptions :
          ApiCall(api, path, Undefined, options)

CallWithBody ==
    /\ calls = NoProps
    /\ nextId <= MaxApiCalls
    /\ \E api \in {"post", "put", "patch"}, path \in ApiPaths, body \in ApiBodies,
          options \in ApiOptions :
          ApiCall(api, path, body, options)

CallCreateRegistration(payloads, max) ==
    /\ nextId <= max
    /\ \E payload \in payloads :
          ApiCall("createRegistration", "/registrations", Obj(payload), NoProps)

NextApi ==
    \/ CallWithoutBody
    \/ CallWithBody
    \/ calls = NoProps /\ CallCreateRegistration({SamplePayload}, MaxApiCalls)
    \/ Network(Statuses, ContentTypes, BodyTexts, TransportErrors, {5000, 10000})

SpecApi == Init /\ [][NextApi]_vars

(***************************************************************************)
(* SpecReg: callers of createRegistration that do not wait for each other. *)
(***************************************************************************)
NextReg ==
    \/ CallCreateRegistration({SamplePayload, OtherPayload}, MaxRegCalls)
    \/ Network({201, 500}, {Str("application/json; charset=utf-8")}, {Str("Server Error")},
               {Err(Str("TypeError"), Str("Failed to fetch"), Undefined, Undefined)}, {10000})

SpecReg == Init /\ [][NextReg]_vars

(***************************************************************************)
(* Spec: the page.                                                         *)
(***************************************************************************)
TextValues == { <<"a">>, <<" ", "a", " ">> }

EditedKeys == {"name"}

Next ==
    \/ \E course \in CourseIds : OpenCourseForm(course)
    \/ \E s \in DOMAIN SessionCourse : OpenSessionForm(s)
    \/ CloseModal
    \/ \E key \in EditedKeys, value \in TextValues : OnChange(key, value)
    \/ \E course \in CourseIds : OnChange("courseId", course)
    \/ \E ts \in Timestamps : Settled = {} /\ nextId <= MaxSubmits /\ HandleSubmit(ts)
    \/ Network({201, 400}, ContentTypes \ {Null},
               {Str("Server Error"), JsonText(Obj([message |-> "Email already registered"]))},
               {Err(Str("TypeError"), Str("Failed to fetch"), Undefined, Undefined)}, {10000})

Spec == Init /\ [][Next]_vars

\* The page under the event loop's guarantees: time passes, and a timer that is
\* due and was not cleared runs its callback.
SpecLive ==
    /\ Spec
    /\ WF_vars(Tick(10000))
    /\ WF_vars(\E id \in DOMAIN calls : TimerFires(id))

(***************************************************************************)
(* SpecFields: the form after the user has typed into every text field;    *)
(* the user submits, and edits the name while the request is pending.      *)
(***************************************************************************)
\* The text fields of the form.
TextKeys == {"name", "email", "phone", "education", "address"}

\* What a text field holds: inner white space, white space at both ends, and
\* nothing but white space.
FieldTexts == { <<"a", " ", "b">>, <<" ", "a", "\t">>, <<" ">> }

FieldForms ==
    [name : FieldTexts, email : FieldTexts, phone : FieldTexts, education : FieldTexts,
     address : FieldTexts, courseId : CourseIds]

InitFields ==
    /\ calls = NoProps
    /\ fetched = <<>>
    /\ nextId = 1
    /\ modalOpen = TRUE
    /\ selectedCourseId = FirstCourseId
    /\ form \in FieldForms
    /\ submitting = FALSE
    /\ lastSubmit = "none"
    /\ reopen = "no"
    /\ callerAborted = FALSE

NextFields ==
    \/ \E value \in FieldTexts : OnChange("name", value)
    \/ \E ts \in Timestamps : Settled = {} /\ nextId <= MaxFieldSubmits /\ HandleSubmit(ts)
    \/ Network({201, 500}, {Str("text/plain")}, {Str("Server Error")},
               {Err(Str("TypeError"), Str("Failed to fetch"), Undefined, Undefined)}, {10000})

SpecFields == InitFields /\ [][NextFields]_vars

(***************************************************************************)
(* SpecCancel: the page, whose user opens, submits and closes, next to a   *)
(* caller that passes the signal of its own controller and aborts it.      *)
(***************************************************************************)
CallWithSignal ==
    /\ nextId <= MaxCancelCalls
    /\ ~callerAborted
    /\ ApiCall("get", "/courses", Undefined, [signal |-> CallerSignal])

NextCancel ==
    \/ \E course \in {"python"} : OpenCourseForm(course)
    \/ CloseModal
    \/ \E ts \in Timestamps : nextId <= MaxCancelCalls /\ HandleSubmit(ts)
    \/ CallWithSignal
    \/ CallerAborts
    \/ Network({201}, {Str("text/plain")}, {Str("Server Error")},
               {Err(Str("TypeError"), Str("Failed to fetch"), Undefined, Undefined)}, {10000})

SpecCancel == Init /\ [][NextCancel]_vars

(***************************************************************************)
(* SpecReopen: the form after the user has typed into every text field;    *)
(* the user selects courses, submits, closes and opens the modal again.    *)
(***************************************************************************)
\* The typed forms the runs start from.
ReopenForms ==
    {f \in FieldForms :
        /\ f.courseId = FirstCourseId
        /\ f.email = f.name
        /\ f.education = f.phone}

InitReopen ==
    /\ calls = NoProps
    /\ fetched = <<>>
    /\ nextId = 1
    /\ modalOpen = TRUE
    /\ selectedCourseId = FirstCourseId
    /\ form \in ReopenForms
    /\ submitting = FALSE
    /\ lastSubmit = "none"
    /\ reopen = "no"
    /\ callerAborted = FALSE

NextReopen ==
    \/ \E course \in {"python"} : OpenCourseForm(course)
    \/ \E s \in {"free-c"} : OpenSessionForm(s)
    \/ CloseModal
    \/ \E course \in CourseIds : OnChange("courseId", course)
    \/ \E ts \in Timestamps : Settled = {} /\ nextId <= MaxReopenSubmits /\ HandleSubmit(ts)
    \/ Network({201}, {Str("application/json; charset=utf-8")}, {Str("Server Error")},
               {Err(Str("TypeError"), Str("Failed to fetch"), Undefined, Undefined)}, {10000})

SpecReopen == InitReopen /\ [][NextReopen]_vars

(***************************************************************************)
(* Properties of request (checked under SpecApi).                          *)
(***************************************************************************)
\* The content types that indicate JSON.
JsonTypes == { Str("application/json"), Str("application/json; charset=utf-8") }

\* The body of settled call c arrived whole and could be decoded.
BodyDecoded(c) == c.text # Undefined /\ (c.contentType \in JsonTypes => IsJson(c.text))

\* The decoded body: the parsed value for a JSON content type, else the text.
DecodedBody(c) == IF c.contentType \in JsonTypes THEN JSONparse(c.text) ELSE c.text

HasMessage(data) == data[1] = "object" /\ "message" \in DOMAIN data[2]

\* C1 as stated: a response with a status outside 2xx whose body was decoded
\* rejects with an ApiError carrying the status, the decoded body as details,
\* and the body's message field whenever the body has one, else the generic
\* message.
C1_MessageWheneverPresent ==
    \A id \in Settled :
        LET c == calls[id]
        IN  (BodyDecoded(c) /\ c.status \notin 200..299) =>
                /\ c.outcome.state = "rejected"
                /\ c.outcome.error.status = Num(c.status)
                /\ c.outcome.error.details = DecodedBody(c)
                /\ c.outcome.error.message =
                       IF HasMessage(DecodedBody(c))
                       THEN Str(DecodedBody(c)[2].message)
                       ELSE Str("Something went wrong")

\* C1, amended: a response with a status outside 2xx whose body was decoded
\* rejects with an ApiError (no name) carrying the status, the decoded body as
\* details, and as message the body's message field when the body has one that
\* is not empty, else exactly "Something went wrong".
C1_HttpError ==
    \A id \in Settled :
        LET c == calls[id]
        IN  (BodyDecoded(c) /\ c.status \notin 200..299) =>
                /\ c.outcome.state = "rejected"
                /\ c.outcome.error.name = Undefined
                /\ c.outcome.error.status = Num(c.status)
                /\ c.outcome.error.details = DecodedBody(c)
                /\ c.outcome.error.message =
                       IF HasMessage(DecodedBody(c)) /\ DecodedBody(c)[2].message # ""
                       THEN Str(DecodedBody(c)[2].message)
                       ELSE Str("Something went wrong")

\* C1 witness: a plain-text "Server Error" with status 500 was rejected with
\* details "Server Error", status 500 and the generic message.
C1_Witness ==
    \E id \in Settled :
        /\ calls[id].status = 500
        /\ calls[id].contentType = Str("text/plain")
        /\ calls[id].text = Str("Server Error")
        /\ calls[id].outcome =
               Rejected(Err(Undefined, Str("Something went wrong"), Num(500),
                            Str("Server Error")))

\* The timeout the caller of call c asked for: its timeout option, 10000 when
\* it passed none.
RequestedTimeout(c) ==
    IF c.api # "createRegistration" /\ "timeout" \in DOMAIN c.options
    THEN c.options.timeout[2]
    ELSE 10000

\* C2: no call is still in flight more than its timeout (10000 ms without the
\* option) after it started; a timer fires exactly when that time has passed,
\* aborts the call's controller, and the call rejects with the ApiError whose
\* message is "Request timeout. Please try again." and whose status is
\* undefined.
C2_Timeout ==
    \A id \in DOMAIN calls :
        LET c == calls[id]
        IN  /\ c.pc # "settled" => c.elapsed <= RequestedTimeout(c)
            /\ c.timer = "fired" =>
                   /\ c.elapsed = RequestedTimeout(c)
                   /\ c.aborted
                   /\ c.pc = "settled"
                   /\ c.outcome.state = "rejected"
                   /\ c.outcome.error.message = Str("Request timeout. Please try again.")
                   /\ c.outcome.error.status = Undefined

\* C2 witness: a call without the timeout option timed out after 10000 ms
\* without a response.
C2_Witness ==
    \E id \in Settled :
        /\ "timeout" \notin DOMAIN calls[id].options
        /\ calls[id].timer = "fired"
        /\ calls[id].status = 0
        /\ calls[id].elapsed = 10000
        /\ calls[id].outcome.error.message = Str("Request timeout. Please try again.")

\* C3: a settled call's timer is not pending, whatever the call settled with;
\* a settled call whose timer fired is one the timer aborted.
C3_TimerCleared ==
    \A id \in Settled :
        /\ calls[id].timer \in {"cleared", "fired"}
        /\ calls[id].timer = "fired" => calls[id].cause = AbortError

\* C3 witness: a call rejected by a transport failure, its time not yet up, has
\* its timer cleared.
C3_Witness ==
    \E id \in Settled :
        /\ calls[id].cause \in TransportErrors
        /\ calls[id].elapsed < calls[id].delay
        /\ calls[id].timer = "cleared"

\* C4 as stated: every 2xx response whose body arrived resolves with the
\* decoded body.
C4_EveryOkResponseResolves ==
    \A id \in Settled :
        LET c == calls[id]
        IN  (c.text # Undefined /\ c.status \in 200..299) =>
                /\ c.outcome.state = "fulfilled"
                /\ c.outcome.value = DecodedBody(c)

\* C4, amended: a 2xx response whose body arrived and, when the content type
\* indicates JSON, is JSON, resolves with the decoded body: the parsed value for
\* a JSON content type, else the text.  A JSON content type with a body that is
\* not JSON rejects with the SyntaxError.
C4_OkResponse ==
    \A id \in Settled :
        LET c == calls[id]
        IN  (c.text # Undefined /\ c.status \in 200..299) =>
                IF BodyDecoded(c)
                THEN /\ c.outcome.state = "fulfilled"
                     /\ c.outcome.value = DecodedBody(c)
                ELSE /\ c.outcome.state = "rejected"
                     /\ c.outcome.error.name = Str("SyntaxError")

\* C4 witness: a 201 response with JSON body {...payload, id: 42} resolved a
\* createRegistration call with that object.
C4_Witness ==
    \E id \in Settled :
        /\ calls[id].api = "createRegistration"
        /\ calls[id].status = 201
        /\ calls[id].contentType \in JsonTypes
        /\ calls[id].outcome = Fulfilled(Obj(Merge(SamplePayload, [id |-> 42])))

\* C5: a call whose fetch or body read failed with anything but the abort of
\* its own timer rejects with that very error.
C5_PassThrough ==
    \A id \in Settled :
        calls[id].cause \notin {NoError, AbortError} =>
            /\ calls[id].outcome.state = "rejected"
            /\ calls[id].outcome.error = calls[id].cause

\* C5 witness: a call that got no response was rejected with the TypeError of
\* fetch.
C5_Witness ==
    \E id \in Settled :
        /\ calls[id].status = 0
        /\ calls[id].cause \in TransportErrors
        /\ calls[id].outcome.error.name = Str("TypeError")
        /\ calls[id].outcome.error.message = calls[id].cause.message

(***************************************************************************)
(* Properties of the exported functions (SpecApi) and of                   *)
(* createRegistration (SpecReg).                                           *)
(***************************************************************************)
FixedMethod(api) ==
    CASE api = "get" -> "GET"
      [] api = "delete" -> "DELETE"
      [] api = "post" -> "POST"
      [] api = "put" -> "PUT"
      [] api = "patch" -> "PATCH"
      [] api = "createRegistration" -> "POST"

\* C6: whatever the options, each exported function sends its own method, and
\* post, put and patch send the JSON serialization of their body argument.
C6_FixedMethodAndBody ==
    \A i \in 1..Len(fetched) :
        LET c == calls[fetched[i].call]
        IN  /\ fetched[i].init.method = Str(FixedMethod(c.api))
            /\ c.api \in {"post", "put", "patch"} =>
                   fetched[i].init.body = JSONstringify(c.body)

\* The fetch calls made for call id.
SentFor(id) == {i \in 1..Len(fetched) : fetched[i].call = id}

\* C7: a call of createRegistration makes exactly one fetch call, before and
\* after it settles, with method POST, the base URL followed by
\* "/registrations", and the JSON encoding of the payload as body.
C7_OnePost ==
    \A id \in DOMAIN calls :
        calls[id].api = "createRegistration" =>
            /\ Cardinality(SentFor(id)) = 1
            /\ \A i \in SentFor(id) :
                  /\ fetched[i].url = BASE_URL \o "/registrations"
                  /\ fetched[i].init.method = Str("POST")
                  /\ fetched[i].init.body = JsonText(calls[id].body)

\* C7 witness: a createRegistration call has failed and one POST was sent for
\* it.
C7_Witness ==
    \E id \in Settled :
        /\ calls[id].api = "createRegistration"
        /\ calls[id].outcome.state = "rejected"
        /\ Cardinality(SentFor(id)) = 1
        /\ \A i \in SentFor(id) : fetched[i].init.method = Str("POST")

\* C8: what the caller of createRegistration gets is the promise of request:
\* fulfilled with the same value or rejected with the same error.
C8_SamePromise ==
    \A id \in DOMAIN calls :
        calls[id].api = "createRegistration" => calls[id].result = calls[id].outcome

\* C8 witness: a createRegistration call rejected with the ApiError of a 500
\* response.
C8_Witness ==
    \E id \in Settled :
        /\ calls[id].api = "createRegistration"
        /\ calls[id].result.state = "rejected"
        /\ calls[id].result.error.status = Num(500)

\* C9: every call of createRegistration has a fetch call of its own, with the
\* signal of its own controller, also when another call with the same payload is
\* in flight or has settled.
C9_NoDeduplication ==
    /\ Len(fetched) = Cardinality(DOMAIN calls)
    /\ \A id \in DOMAIN calls :
          \E i \in 1..Len(fetched) :
              fetched[i].call = id /\ fetched[i].init.signal = <<"signal", id>>

\* C9 witness: two calls with identical payloads are in flight and two requests
\* with that payload were sent.
C9_Witness ==
    \E a, b \in InFlight :
        /\ a # b
        /\ calls[a].body = calls[b].body
        /\ Len(fetched) = 2
        /\ fetched[1].init.body = fetched[2].init.body
        /\ fetched[1].call # fetched[2].call

(***************************************************************************)
(* Properties of the page (Spec).                                          *)
(***************************************************************************)
\* The requests of submissions that have not settled.
FormRequestsInFlight ==
    {i \in 1..Len(fetched) :
        /\ fetched[i].call \in InFlight
        /\ calls[fetched[i].call].origin = "form"}

\* C10: at most one request of the form is in flight, and exactly one while
\* submitting is set: a submit event during a submission starts no request.
C10_SubmitGuard ==
    /\ Cardinality(FormRequestsInFlight) <= 1
    /\ submitting => Cardinality(FormRequestsInFlight) = 1

\* C10 witness: a submit event was ignored while the first submission is
\* pending, and one request was sent.
C10_Witness ==
    /\ lastSubmit = "ignored"
    /\ submitting
    /\ Len(fetched) = 1
    /\ Cardinality(FormRequestsInFlight) = 1


\* ---------------------------------------------------------------------------
\* C11  The submission flow asks the modal to close exactly when the
\* createRegistration call resolved: in the step in which a request of the form
\* settles, the modal is closed afterwards if the result is fulfilled, and the
\* modal is left as it was (open stays open) if the result is rejected.

\* The requests of the form that settle in the step from calls to calls'.
FormSettlements ==
    {id \in DOMAIN calls :
        /\ id \in DOMAIN calls'
        /\ calls[id].origin = "form"
        /\ calls[id].pc # "settled"
        /\ calls'[id].pc = "settled"}

C11_CloseIffResolved ==
    [][\A id \in FormSettlements :
          IF calls'[id].result.state = "fulfilled"
          THEN modalOpen' = FALSE
          ELSE modalOpen' = modalOpen]_vars

\* A submission failed and the form is still shown, no longer submitting.
C11_Witness ==
    \E id \in Settled :
        /\ calls[id].origin = "form"
        /\ calls[id].result.state = "rejected"
        /\ modalOpen
        /\ ~submitting
        /\ lastSubmit = "started"

\* ---------------------------------------------------------------------------
\* C12  handleSubmit never writes the form: a step that handles a submit event
\* (started or ignored) and a step in which a request of the form settles,
\* resolved or rejected, leave all six fields as they were; so after a failed
\* submission the form holds what was typed, untrimmed, with the edits made
\* while the request was pending.
C12_FormKept ==
    [][(nextId' # nextId \/ lastSubmit' # lastSubmit \/ FormSettlements # {})
          => form' = form]_vars

\* A submission failed; the payload carried the trimmed texts and the form
\* still holds the untrimmed ones.
C12_Witness ==
    \E id \in Settled :
        /\ calls[id].origin = "form"
        /\ calls[id].result.state = "rejected"
        /\ \A k \in TextKeys : calls[id].body[2][k] = Trim(form[k])
        /\ \E k \in TextKeys : calls[id].body[2][k] # form[k]

\* ---------------------------------------------------------------------------
\* C13  Every submission that starts (submitting = TRUE) comes back to idle
\* (submitting = FALSE), whatever the network does: at the latest the request's
\* timer settles it, and handleSubmit resets submitting for every outcome.
\* From idle a submit event is never ignored: it starts a submission.
C13_BackToIdle ==
    /\ submitting ~> ~submitting
    /\ [][(~submitting /\ lastSubmit' # lastSubmit)
            => (lastSubmit' = "started" /\ submitting')]_vars

\* The second submission was accepted after the first had come back to idle,
\* and it failed and came back to idle too.
C13_Witness ==
    \E id \in Settled :
        /\ id = 2
        /\ calls[id].origin = "form"
        /\ calls[id].result.state = "rejected"
        /\ ~submitting

\* ---------------------------------------------------------------------------
\* C14  The form's courseId is always an id of the course catalog, and when
\* the form is shown (the modal goes from hidden to shown, or is shown with
\* another default) its courseId is the default of that opening, which is the
\* course passed to openCourseForm or the courseId of the session passed to
\* openSessionForm, whatever was selected, submitted or closed before.
C14_DefaultAtOpening ==
    /\ [](form.courseId \in CourseIds /\ selectedCourseId \in CourseIds)
    /\ [][((~modalOpen /\ modalOpen') \/ (modalOpen' /\ selectedCourseId' # selectedCourseId))
            => form'.courseId = selectedCourseId']_vars

\* The form was submitted with one course, closed, and is shown again with the
\* default of the new opening.
C14_Witness ==
    /\ modalOpen
    /\ reopen = "reopened"
    /\ selectedCourseId = "c-programming"
    /\ form.courseId = selectedCourseId
    /\ \E id \in InFlight : calls[id].body[2].courseId = "python"

\* ---------------------------------------------------------------------------
\* C15  Each call of request has its own controller and timer: a call is
\* aborted only by its own timer, the timer of a call in flight is pending
\* whatever happened to the other calls, and a step in which the timer of one
\* call fires or is cleared changes neither the timer nor the abort flag nor
\* the outcome of any other call.
OwnTimerOnly ==
    \A id \in DOMAIN calls :
        /\ calls[id].aborted => calls[id].timer = "fired"
        /\ id \in InFlight => (calls[id].timer = "pending" /\ ~calls[id].aborted)

C15_NoInterference ==
    /\ []OwnTimerOnly
    /\ [][\A a \in DOMAIN calls \cap DOMAIN calls', b \in DOMAIN calls \cap DOMAIN calls' :
              (a # b /\ calls'[a].timer # calls[a].timer)
                  => /\ calls'[b].timer = calls[b].timer
                     /\ calls'[b].aborted = calls[b].aborted
                     /\ calls'[b].pc = calls[b].pc
                     /\ calls'[b].outcome = calls[b].outcome]_vars

\* Two requests at once: the timer of one has fired and rejected it with the
\* timeout error, the other, started later, is still in flight.
C15_Witness ==
    \E a \in Settled, b \in InFlight :
        /\ calls[a].timer = "fired"
        /\ calls[a].outcome = Rejected(TimeoutError)
        /\ calls[b].timer = "pending"
        /\ calls[b].elapsed < calls[b].delay

\* ---------------------------------------------------------------------------
\* C16  As claimed: the guard does not cover successive opens; once the modal
\* was closed while a submission is pending and opened again, a submit event
\* starts a second submission, that is, sends another request.
C16_ReopenedFormSubmits ==
    [][(reopen = "reopened" /\ lastSubmit' # lastSubmit)
          => Len(fetched') = Len(fetched) + 1]_vars

\* C16, amended: the guard covers successive opens too.  The modal stays
\* mounted while closed, so after it was closed while a submission is pending
\* and opened again, submitting is still set, and a submit event is ignored:
\* it sends no request and starts no call.
C16_ReopenedFormGuarded ==
    /\ [](reopen = "reopened" => SubmitGuard(submitting))
    /\ [][(reopen = "reopened" /\ lastSubmit' # lastSubmit)
            => (lastSubmit' = "ignored" /\ fetched' = fetched /\ calls' = calls)]_vars

\* The modal was closed and opened again while the only request is in flight,
\* and a submit event was ignored.
C16_Witness ==
    /\ modalOpen
    /\ reopen = "reopened"
    /\ lastSubmit = "ignored"
    /\ Len(fetched) = 1
    /\ \E id \in InFlight : calls[id].origin = "form"

\* ---------------------------------------------------------------------------
\* C17  Every request the form sends carries a payload whose name, email,
\* phone, education and address neither start nor end with white space, and
\* whose courseId is an id of the catalog (none of which holds white space),
\* whatever the form held when it was submitted.
WhiteSpace == {" ", "\t"}

NoOuterSpace(s) == s = <<>> \/ (s[1] \notin WhiteSpace /\ s[Len(s)] \notin WhiteSpace)

\* The payload in the body of the i-th request.
SentPayload(i) == fetched[i].init.body[2][2]

C17_PayloadTrimmed ==
    \A i \in 1..Len(fetched) :
        /\ fetched[i].init.body[1] = "jsontext"
        /\ \A k \in TextKeys : NoOuterSpace(SentPayload(i)[k])
        /\ SentPayload(i).courseId \in CourseIds

\* A request was sent from a form whose name had white space at both ends,
\* whose email was white space only and whose phone had inner white space.
C17_Witness ==
    \E i \in 1..Len(fetched) :
        /\ form.name = <<" ", "a", "\t">> /\ SentPayload(i).name = <<"a">>
        /\ form.email = <<" ">> /\ SentPayload(i).email = <<>>
        /\ form.phone = <<"a", " ", "b">> /\ SentPayload(i).phone = <<"a", " ", "b">>
        /\ SentPayload(i).courseId = "python"

\* ---------------------------------------------------------------------------
\* C18  Only its own timer cancels a request: every fetch is given the signal
\* of the call's own controller, also when the options hold a signal of the
\* caller; a call ends through an AbortError only after its own timer fired;
\* and a step that closes the modal or aborts the caller's controller changes
\* no call.
OwnSignalOnly ==
    /\ \A i \in 1..Len(fetched) : fetched[i].init.signal = <<"signal", fetched[i].call>>
    /\ \A id \in DOMAIN calls :
          calls[id].cause = AbortError
              => (calls[id].timer = "fired" /\ calls[id].elapsed >= calls[id].delay)

C18_TimerOnlyCancels ==
    /\ []OwnSignalOnly
    /\ [][((modalOpen /\ ~modalOpen' /\ FormSettlements = {}) \/ callerAborted' # callerAborted)
            => calls' = calls]_vars

\* The modal was closed while its submission is pending and the caller's
\* controller was aborted while a request called with its signal is pending:
\* both requests are still in flight.
C18_Witness ==
    /\ ~modalOpen
    /\ reopen = "closed"
    /\ callerAborted
    /\ \E a \in InFlight, b \in InFlight :
          /\ calls[a].origin = "form"
          /\ calls[b].origin = "direct"
          /\ calls[b].options = [signal |-> CallerSignal]
          /\ calls[a].timer = "pending" /\ calls[b].timer = "pending"

\* ---------------------------------------------------------------------------
\* The kinds of outcome of a settled call c.
OutcomeKinds(c) ==
    {k \in {"resolved", "http", "timeout", "transport", "decode"} :
        CASE k = "resolved" -> c.outcome.state = "fulfilled"
          [] k = "http" -> /\ c.outcome.state = "rejected"
                           /\ c.outcome.error.name = Undefined
                           /\ c.outcome.error.status = Num(c.status)
                           /\ ~ResponseOk(c.status)
          [] k = "timeout" -> c.outcome = Rejected(TimeoutError)
          [] k = "transport" -> /\ c.outcome.state = "rejected"
                                /\ c.outcome.error \in TransportErrors
          [] k = "decode" -> c.outcome = Rejected(SyntaxError)}

\* C19  As claimed: every settled call has exactly one of four outcomes, the
\* resolved body, the HTTP ApiError with the status, the timeout ApiError
\* without status, or the raw transport error.
C19_FourOutcomes ==
    \A id \in Settled :
        /\ Cardinality(OutcomeKinds(calls[id])) = 1
        /\ "decode" \notin OutcomeKinds(calls[id])

\* C19, amended: there is a fifth outcome, the raw SyntaxError of a body that
\* is announced as JSON and is not JSON.  A call settles once, with exactly
\* one of the five outcomes; its outcome is the timeout ApiError exactly when
\* its own timer fired, which then happened before the body was decoded, also
\* when the headers had arrived with a status outside 2xx.
C19_Outcomes ==
    /\ [](\A id \in DOMAIN calls :
            IF id \in Settled
            THEN /\ Cardinality(OutcomeKinds(calls[id])) = 1
                 /\ "timeout" \in OutcomeKinds(calls[id]) <=> calls[id].timer = "fired"
                 /\ calls[id].timer = "fired"
                        => (calls[id].text = Undefined /\ calls[id].elapsed >= calls[id].delay)
            ELSE calls[id].outcome = Pending)
    /\ [][\A id \in DOMAIN calls \cap DOMAIN calls' :
              calls[id].pc = "settled"
                  => (calls'[id].pc = "settled" /\ calls'[id].outcome = calls[id].outcome)]_vars

\* The headers of a 500 response had arrived when the timer fired during the
\* read of the body: the call is rejected with the timeout ApiError.
C19_Witness ==
    \E id \in Settled :
        /\ calls[id].status = 500
        /\ calls[id].timer = "fired"
        /\ calls[id].text = Undefined
        /\ calls[id].outcome = Rejected(TimeoutError)

\* ---------------------------------------------------------------------------
\* C20  At every moment at most one call made by the form is pending, and
\* submitting is set exactly while one is, through every sequence of submits,
\* edits, closes and reopens.
FormCallsPending == {id \in InFlight : calls[id].origin = "form"}

C20_OneOutstanding ==
    /\ Cardinality(FormCallsPending) <= 1
    /\ submitting <=> FormCallsPending # {}

\* The modal was closed and opened again and the name edited while the one
\* submission is still pending.
C20_Witness ==
    /\ modalOpen
    /\ submitting
    /\ reopen = "reopened"
    /\ lastSubmit = "started"
    /\ \E id \in FormCallsPending : calls[id].body[2].name # Trim(form.name)

\* ---------------------------------------------------------------------------
\* C21  When the modal was closed and opened again, for whatever course or
\* session, while a submission is pending, the settlement of that submission
\* closes the reopened modal if the request resolved; if it was rejected the
\* modal stays as it is, shown or hidden, and a hidden modal is never shown
\* by a settlement.
C21_LateCompletion ==
    [][\A id \in FormSettlements :
          /\ (reopen = "reopened" /\ calls'[id].result.state = "fulfilled")
                => (modalOpen /\ ~modalOpen')
          /\ (reopen # "no" /\ calls'[id].result.state = "rejected")
                => modalOpen' = modalOpen
          /\ ~modalOpen => ~modalOpen']_vars

\* The submission of one opening resolved after the modal had been closed and
\* opened again for another course, and the modal is closed.
C21_Witness ==
    /\ reopen = "completed"
    /\ ~modalOpen
    /\ ~submitting
    /\ \E id \in Settled :
          /\ calls[id].origin = "form"
          /\ calls[id].result.state = "fulfilled"
          /\ calls[id].body[2].courseId # selectedCourseId

\* ---------------------------------------------------------------------------
\* C22  A step that hides or shows the modal, changes its default course, or
\* settles a request of the form, resolved ones included, leaves name, email,
\* phone, education and address as they were.  Such a step changes courseId
\* only when it shows the modal, and a step that shows the modal sets
\* courseId to the default course of that opening, whatever course was
\* selected before.
C22_OpeningFrame ==
    [][(modalOpen' # modalOpen \/ selectedCourseId' # selectedCourseId \/ FormSettlements # {})
          => /\ \A k \in TextKeys : form'[k] = form[k]
             /\ form'.courseId # form.courseId => modalOpen'
             /\ (~modalOpen /\ modalOpen') => form'.courseId = selectedCourseId']_vars

\* A submission resolved and closed the modal; the modal was opened again for
\* another course than the one submitted: the texts are the submitted ones,
\* untrimmed, and courseId is the default of the new opening.
C22_Witness ==
    /\ modalOpen
    /\ \E id \in Settled :
          /\ calls[id].origin = "form"
          /\ calls[id].result.state = "fulfilled"
          /\ \A k \in TextKeys : form[k] # <<>> /\ calls[id].body[2][k] = Trim(form[k])
          /\ calls[id].body[2].courseId = "flutter"
    /\ selectedCourseId = "c-programming"
    /\ form.courseId = selectedCourseId

====
